---- MODULE Spec2Model ----
(***************************************************************************)
(* Admission-controlled GPU job pipeline of pdfscribe2ds-fastapi.          *)
(*                                                                         *)
(* The model follows the event loop of the service: every action is one    *)
(* uninterrupted run of a request's coroutine between two suspension       *)
(* points (or one step of the worker thread that asyncio.to_thread runs).  *)
(* The gate is the asyncio.BoundedSemaphore built in init_engines; its     *)
(* acquire / release / locked / _wake_up_next are modelled as the library  *)
(* implements them (FIFO waiters, a release hands the slot to the first    *)
(* waiter whose future is not done).                                       *)
(*                                                                         *)
(* Time is counted in ticks of 0.1 s, the slack of try_admit_now.          *)
(***************************************************************************)
EXTENDS Integers, Sequences, FiniteSets, TLC

\* ---------------------------------------------------------------- bounds
NumRequests == 2
MaxSlots == 2
MaxPages == 2
MaxTimeout == 2
MaxItems == 2
MaxEngines == 3

\* try_admit_now: wait_for(e.gate.acquire(), timeout=0.1), one tick
ProbeSlack == 1

Requests == 1..NumRequests
\* timeout_s of a wait-bounded request: zero, or a positive number of ticks
Timeouts == {0, MaxTimeout}
\* page counts pdf_to_images is taken to return: none, one, the most
PageCounts == {0, 1, MaxPages}

VARIABLES
    gate,          \* Engines.gate, the admission gate
    pc,            \* where each request's coroutine stands
    wait_if_busy,  \* query parameter of the request
    timeout_s,     \* query parameter of the request, in ticks
    waited,        \* ticks the request has spent suspended on the gate
    status,        \* HTTP status of the response, 0 while there is none
    detail,        \* detail of the HTTPException raised, "" if none
    workdir,       \* process_pdf created the job's working directory
    numPages,      \* pages the rasterizer produced
    pageIdx,       \* pages the OCR loop has gone through
    mdFiles,       \* pages whose markdown file was written
    skipped,       \* pages whose OCR raised and that were skipped
    caption,       \* caption stage of the job: "no", "started", "finished"
    engineUsed,    \* an OCR or caption engine call was made for the request
    acquired,      \* times _admit acquired the gate for the request
    released,      \* times _admit released the gate for the request
    heldAtCall,    \* slots held when the request called try_admit_*, -1 before
    heldAtReturn,  \* slots held when try_admit_* returned, -1 before
    ownedAtReturn, \* slots the request owned when try_admit_* returned, -1 before
    engines,       \* _engines, the registry: its engine handles, 0 for None
    built,         \* engine objects constructed in the process so far
    cpc,           \* where the process and its worker thread stand
    ocr_used,      \* engine handle the job's OCR stage works with, 0 if none
    cap_used,      \* engine handle the job's caption stage works with, 0 if none
    rewrite,       \* rewrite mode of the job: "append" or "replace"
    filesLeft,     \* markdown files run_caption_pipeline has still to go through
    text,          \* content of the markdown file caption_markdown_file read
    missing,       \* image references of the file whose image does not exist
    matches,       \* list(_IMG_TAG.finditer(text))
    mIdx,          \* the match the caption loop is at
    captions_cache,\* captions_cache, as a set of <<rel, cap>>
    calls,         \* captioner.caption calls made for each reference of the file
    new_text,      \* content of the file when caption_markdown_file returned
    changed,       \* what caption_markdown_file returned
    cancel_evt,    \* cancel_evt of a run_pdf_pipeline call: "none", "clear", "set"
    pages,         \* pages pdf_to_images gave the call
    page_i,        \* pages the call's loop has gone through
    md_pages       \* pages whose markdown file the call has written

vars == <<gate, pc, wait_if_busy, timeout_s, waited, status, detail, workdir,
          numPages, pageIdx, mdFiles, skipped, caption, engineUsed, acquired,
          released, heldAtCall, heldAtReturn, ownedAtReturn, engines, built, cpc,
          ocr_used, cap_used, rewrite, filesLeft, text, missing, matches, mIdx,
          captions_cache, calls, new_text, changed, cancel_evt, pages, page_i,
          md_pages>>

reqVars == <<wait_if_busy, timeout_s>>
pageVars == <<numPages, pageIdx, mdFiles, skipped>>
probeVars == <<heldAtCall, heldAtReturn, ownedAtReturn>>
\* the registry and the engines of the process
engineVars == <<engines, built>>
\* the job the worker thread runs
workerVars == <<cpc, ocr_used, cap_used, rewrite, filesLeft>>
\* the markdown file caption_markdown_file works on
fileVars == <<text, missing, matches, mIdx, captions_cache, calls, new_text, changed>>
\* a call of run_pdf_pipeline followed page by page
ocrVars == <<cancel_evt, pages, page_i, md_pages>>
\* what the worker thread's stages work with
jobVars == <<engineVars, workerVars, fileVars, ocrVars>>
\* the requests and their jobs on the event loop
requestVars == <<pc, wait_if_busy, timeout_s, waited, status, detail, workdir,
                 numPages, pageIdx, mdFiles, skipped, caption, engineUsed,
                 acquired, released, heldAtCall, heldAtReturn, ownedAtReturn>>

Min(a, b) == IF a < b THEN a ELSE b

\* ------------------------------------------------------- markdown texts
\* A text is a sequence of characters (one-character strings).
\* _IMG_TAG = re.compile(r'!\[(.*?)\]\((.*?)\)'); "." is every character
\* but a newline.
Dot(c) == c # "\n"

\* the lazy (.*?)\): least k >= the given one with text[k] = ")" and only
\* "." characters before it, 0 if there is none
RECURSIVE RelEnd(_, _)
RelEnd(txt, k) ==
    IF k > Len(txt) THEN 0
    ELSE IF txt[k] = ")" THEN k
    ELSE IF Dot(txt[k]) THEN RelEnd(txt, k + 1) ELSE 0

\* the lazy (.*?)\]\(: least j >= the given one with "](" at j after which
\* the tag can be closed, only "." characters before it, 0 if there is none
RECURSIVE AltEnd(_, _)
AltEnd(txt, j) ==
    IF j + 1 > Len(txt) THEN 0
    ELSE IF txt[j] = "]" /\ txt[j + 1] = "(" /\ RelEnd(txt, j + 2) # 0 THEN j
    ELSE IF Dot(txt[j]) THEN AltEnd(txt, j + 1) ELSE 0

\* the match of _IMG_TAG starting at position i: where it starts and ends,
\* group(1) and group(2); last = 0 if there is no match at i
MatchAt(txt, i) ==
    IF i + 1 <= Len(txt) /\ txt[i] = "!" /\ txt[i + 1] = "[" /\ AltEnd(txt, i + 2) # 0
    THEN LET j == AltEnd(txt, i + 2)
             k == RelEnd(txt, j + 2)
         IN  [first |-> i, last |-> k,
              alt |-> SubSeq(txt, i + 2, j - 1), rel |-> SubSeq(txt, j + 2, k - 1)]
    ELSE [first |-> i, last |-> 0, alt |-> <<>>, rel |-> <<>>]

\* list(_IMG_TAG.finditer(text)) from position i on: the leftmost matches,
\* not overlapping
RECURSIVE FindIter(_, _)
FindIter(txt, i) ==
    IF i > Len(txt) THEN <<>>
    ELSE LET m == MatchAt(txt, i)
         IN  IF m.last = 0 THEN FindIter(txt, i + 1)
             ELSE <<m>> \o FindIter(txt, m.last + 1)

\* the references (group(2)) of a list of matches
RelsIn(ms) == {ms[i].rel : i \in 1..Len(ms)}

\* m.group(0)
Group0(txt, m) == SubSeq(txt, m.first, m.last)

\* str.strip()
IsSpace(c) == c \in {" ", "\n"}
RECURSIVE LStrip(_)
LStrip(str) == IF str # <<>> /\ IsSpace(Head(str)) THEN LStrip(Tail(str)) ELSE str
RECURSIVE RStrip(_)
RStrip(str) ==
    IF str # <<>> /\ IsSpace(str[Len(str)]) THEN RStrip(SubSeq(str, 1, Len(str) - 1)) ELSE str
Strip(str) == RStrip(LStrip(str))

\* (alt or "Image").strip()
Prefix(alt) == Strip(IF alt = <<>> THEN <<"I", "m", "a", "g", "e">> ELSE alt)

\* _render_caption_block(alt, cap): f"\n\n*{prefix} - {cap}*\n"
RenderCaptionBlock(alt, cap) ==
    <<"\n", "\n", "*">> \o Prefix(alt) \o <<" ", "-", " ">> \o cap \o <<"*", "\n">>

\* f"{prefix} (Interpreted and captioned): {cap}"; the words between the
\* prefix and the caption are written as one element
InlineCaption(alt, cap) == Prefix(alt) \o <<" (Interpreted and captioned): ">> \o cap

\* captions_cache.get(rel), <<>> for None
CacheGet(cache, rel) ==
    IF \E p \in cache : p[1] = rel THEN (CHOOSE p \in cache : p[1] = rel)[2] ELSE <<>>
\* rel in captions_cache
InCache(cache, rel) == \E p \in cache : p[1] = rel

\* repl(m) of caption_markdown_file: no caption (None or empty), the tag as
\* it is; REPLACE, the inline caption; APPEND, the tag and the caption block
ReplIgnoresMode(txt, m, cache, mode) ==
    LET cap == CacheGet(cache, m.rel)
    IN  IF cap = <<>> THEN Group0(txt, m)
        ELSE Group0(txt, m) \o RenderCaptionBlock(m.alt, cap)
Repl(txt, m, cache, mode) ==
    LET cap == CacheGet(cache, m.rel)
    IN  IF cap = <<>> THEN Group0(txt, m)
        ELSE IF mode = "replace" THEN InlineCaption(m.alt, cap)
        ELSE Group0(txt, m) \o RenderCaptionBlock(m.alt, cap)

\* _IMG_TAG.sub(repl, text), from match i of ms and position pos of the text
RECURSIVE SubFromDropsTail(_, _, _, _, _, _)
SubFromDropsTail(txt, ms, i, pos, cache, mode) ==
    IF i > Len(ms) THEN <<>>
    ELSE SubSeq(txt, pos, ms[i].first - 1) \o Repl(txt, ms[i], cache, mode)
            \o SubFromDropsTail(txt, ms, i + 1, ms[i].last + 1, cache, mode)
RECURSIVE SubFrom(_, _, _, _, _, _)
SubFrom(txt, ms, i, pos, cache, mode) ==
    IF i > Len(ms) THEN SubSeq(txt, pos, Len(txt))
    ELSE SubSeq(txt, pos, ms[i].first - 1) \o Repl(txt, ms[i], cache, mode)
            \o SubFrom(txt, ms, i + 1, ms[i].last + 1, cache, mode)
ImgTagSub(txt, cache, mode) == SubFrom(txt, FindIter(txt, 1), 1, 1, cache, mode)

\* the markdown texts the OCR stage may leave: up to MaxItems pieces, each a
\* character of plain text, an image tag, or a tag's opening or end alone
Tag(alt, rel) == <<"!", "[">> \o alt \o <<"]", "(">> \o rel \o <<")">>
Alts == {<<>>, <<" ", "a">>}
Rels == {<<"x">>, <<"y">>}
Pieces == {<<"t">>, <<"!", "[">>, <<"]", "(", "y", ")">>} \cup {Tag(a, rel) : a \in Alts, rel \in Rels}
RECURSIVE TextsOf(_)
TextsOf(n) ==
    IF n = 0 THEN {<<>>}
    ELSE LET shorter == TextsOf(n - 1) IN shorter \cup {t \o p : t \in shorter, p \in Pieces}
Texts == TextsOf(MaxItems)
\* what captioner.caption may return
Captions == {<<>>, <<"c">>}
RewriteModes == {"append", "replace"}

\* ------------------------------------------------------------------ gate
\* asyncio.BoundedSemaphore(gpu_slots). value, bound_value and waiters are
\* the semaphore's fields; woken are the waiters whose future has its result;
\* owned counts, for each request, the slots its acquires took and its
\* releases have not given back; unpaired records a release by a request
\* that owned nothing, error the ValueError of a release past the bound.
NewGate(gpu_slots) ==
    [value |-> gpu_slots, bound_value |-> gpu_slots, waiters |-> <<>>,
     woken |-> {}, owned |-> [r \in Requests |-> 0],
     error |-> FALSE, unpaired |-> FALSE]

RemoveWaiter(ws, r) == SelectSeq(ws, LAMBDA w : w # r)

\* the request's acquire is suspended in the gate's queue
InQueue(g, r) == \E i \in 1..Len(g.waiters) : g.waiters[i] = r

\* Semaphore.locked(): no slot, or somebody is queued before us (a cancelled
\* waiter leaves the queue in the same step, so every queued waiter counts)
LockedIgnoresValue(g) == Len(g.waiters) > 0
Locked(g) == g.value = 0 \/ Len(g.waiters) > 0

\* Semaphore._wake_up_next(): hand a slot to the first waiter not yet woken
WakeUpNobody(g) == g
WakeUpNext(g) ==
    LET pending == SelectSeq(g.waiters, LAMBDA w : w \notin g.woken)
    IN  IF Len(pending) = 0 THEN g
        ELSE [g EXCEPT !.value = @ - 1, !.woken = @ \cup {Head(pending)},
                       !.owned[Head(pending)] = @ + 1]

\* Semaphore.acquire() up to its first suspension: take a slot or queue up
GateAcquire(g, r) ==
    IF ~Locked(g) THEN [g EXCEPT !.value = @ - 1, !.owned[r] = @ + 1]
    ELSE [g EXCEPT !.waiters = Append(@, r)]

\* BoundedSemaphore.release() called by r: ValueError past the bound, else
\* value += 1 and wake the next waiter
GateRelease(g, r) ==
    IF g.value >= g.bound_value THEN [g EXCEPT !.error = TRUE]
    ELSE WakeUpNext([g EXCEPT !.value = @ + 1, !.owned[r] = @ - 1,
                              !.unpaired = @ \/ g.owned[r] <= 0])

\* Semaphore.acquire() resumed by its future's result: leave the queue and,
\* if a slot is still free, wake the next waiter
GateResume(g, r) ==
    LET h == [g EXCEPT !.waiters = RemoveWaiter(@, r), !.woken = @ \ {r}]
    IN  IF h.value > 0 THEN WakeUpNext(h) ELSE h

\* Semaphore.acquire() cancelled while queued: leave the queue; a slot that
\* was already handed over is given back and passed on
GateCancelKeepsSlot(g, r) ==
    [g EXCEPT !.waiters = RemoveWaiter(@, r), !.woken = @ \ {r}]
GateCancelAlwaysGivesBack(g, r) ==
    LET h == [g EXCEPT !.waiters = RemoveWaiter(@, r), !.woken = @ \ {r}]
    IN  WakeUpNext([h EXCEPT !.value = @ + 1, !.owned[r] = @ - 1])
GateCancel(g, r) ==
    LET h == [g EXCEPT !.waiters = RemoveWaiter(@, r), !.woken = @ \ {r}]
    IN  IF r \in g.woken
        THEN WakeUpNext([h EXCEPT !.value = @ + 1, !.owned[r] = @ - 1])
        ELSE h

\* slots taken out of a gate
HeldIn(g) == g.bound_value - g.value
Held == HeldIn(gate)

\* engines_busy(): e.gate._value == 0
EnginesBusyWhenAnyHeld(g) == g.value < g.bound_value
engines_busy(g) == g.value = 0

\* ------------------------------------------------------------- requests
GateWaitPcs == {"probe_wait", "admit_wait"}
StagePcs == {"ocr", "pages", "caption"}
FinalPcs == {"invalid", "rejected", "failed", "cancelled", "done", "error"}
PcValues == {"idle", "probe_ok"} \cup GateWaitPcs \cup StagePcs \cup FinalPcs

\* suspended on a gate future that has no result yet, or has one and was
\* not resumed yet
Waiting(r) == pc[r] \in GateWaitPcs
\* the event loop has a callback ready for the request
Runnable(r) == pc[r] = "probe_ok" \/ (Waiting(r) /\ r \in gate.woken)
\* the request owns a slot of the gate
Holds(r) == gate.owned[r] > 0

\* process_pdf runs each stage with "await asyncio.to_thread(...)": the stage
\* works in a worker thread while the coroutine is suspended, so the job of
\* request r never keeps the event loop to itself
StageOnEventLoop(r) == pc[r] \in StagePcs
StageKeepsLoop(r) == FALSE
\* the event loop can run the next callback
LoopFree == \A r \in Requests : ~StageKeepsLoop(r)

\* the timeout handed to asyncio.wait_for by the request's probe
Deadline(r) == IF wait_if_busy[r] THEN timeout_s[r] ELSE ProbeSlack
\* waiting time is counted up to one tick past the request's deadline
WaitCap(r) == Deadline(r) + 1

\* no request has arrived
RequestsIdle ==
    /\ pc = [r \in Requests |-> "idle"]
    /\ wait_if_busy = [r \in Requests |-> FALSE]
    /\ timeout_s = [r \in Requests |-> 0]
    /\ waited = [r \in Requests |-> 0]
    /\ status = [r \in Requests |-> 0]
    /\ detail = [r \in Requests |-> ""]
    /\ workdir = [r \in Requests |-> FALSE]
    /\ numPages = [r \in Requests |-> 0]
    /\ pageIdx = [r \in Requests |-> 0]
    /\ mdFiles = [r \in Requests |-> {}]
    /\ skipped = [r \in Requests |-> {}]
    /\ caption = [r \in Requests |-> "no"]
    /\ engineUsed = [r \in Requests |-> FALSE]
    /\ acquired = [r \in Requests |-> 0]
    /\ released = [r \in Requests |-> 0]
    /\ heldAtCall = [r \in Requests |-> -1]
    /\ heldAtReturn = [r \in Requests |-> -1]
    /\ ownedAtReturn = [r \in Requests |-> -1]

\* no markdown file is being captioned
NoFile ==
    /\ text = <<>>
    /\ missing = {}
    /\ matches = <<>>
    /\ mIdx = 0
    /\ captions_cache = {}
    /\ calls = [rel \in Rels |-> 0]
    /\ new_text = <<>>
    /\ changed = FALSE

\* the worker thread runs no job
NoJob ==
    /\ ocr_used = 0
    /\ cap_used = 0
    /\ rewrite = "append"
    /\ filesLeft = 0

\* no call of run_pdf_pipeline is followed
NoOcrCall ==
    /\ cancel_evt = "none"
    /\ pages = 0
    /\ page_i = 0
    /\ md_pages = {}

\* the service after its lifespan start-up: init_engines has built the two
\* engines and the gate
Init ==
    /\ gate \in {NewGate(n) : n \in 1..MaxSlots}
    /\ RequestsIdle
    /\ engines = [ocr |-> 1, vl2 |-> 2]
    /\ built = 2
    /\ cpc = "idle"
    /\ NoJob
    /\ NoFile
    /\ NoOcrCall

\* HTTP status and detail of a refused admission
BusyStatusAsStageFailure(w) == 500
BusyStatus(w) == IF w THEN 503 ELSE 429
BusyDetail(w) == IF w THEN "GPU is still busy after waiting" ELSE "GPU is busy"
\* the Retry-After header of the same HTTPException, in seconds
BusyRetryAfter(w) == IF w THEN 30 ELSE 15

\* the endpoint raises the HTTPException of a refused admission
Reject(r, w) ==
    /\ pc' = [pc EXCEPT ![r] = "rejected"]
    /\ status' = [status EXCEPT ![r] = BusyStatus(w)]
    /\ detail' = [detail EXCEPT ![r] = BusyDetail(w)]
    /\ heldAtReturn' = [heldAtReturn EXCEPT ![r] = HeldIn(gate')]
    /\ ownedAtReturn' = [ownedAtReturn EXCEPT ![r] = gate'.owned[r]]

\* the endpoint's checks of the upload, in their order: the content type,
\* then the body that was read; "" for an upload that passes
UploadDetail(is_pdf, empty) ==
    IF ~is_pdf THEN "Invalid file type. Only PDF files are supported."
    ELSE IF empty THEN "Empty file uploaded." ELSE ""

\* POST /process/pdf with an upload that fails a check: HTTPException 400
\* is raised at the head of the endpoint
UploadRefusedAfterProbe(r, is_pdf, empty) ==
    /\ LoopFree
    /\ pc[r] = "idle"
    /\ \A q \in Requests : q < r => pc[q] # "idle"
    /\ UploadDetail(is_pdf, empty) # ""
    /\ heldAtCall' = [heldAtCall EXCEPT ![r] = Held]
    /\ gate' = GateAcquire(gate, r)
    /\ pc' = [pc EXCEPT ![r] = "invalid"]
    /\ status' = [status EXCEPT ![r] = 400]
    /\ detail' = [detail EXCEPT ![r] = UploadDetail(is_pdf, empty)]
    /\ UNCHANGED <<jobVars, reqVars, waited, workdir, pageVars, caption, engineUsed,
                   acquired, released, heldAtReturn, ownedAtReturn>>
UploadRefused(r, is_pdf, empty) ==
    /\ LoopFree
    /\ pc[r] = "idle"
    /\ \A q \in Requests : q < r => pc[q] # "idle"
    /\ UploadDetail(is_pdf, empty) # ""
    /\ pc' = [pc EXCEPT ![r] = "invalid"]
    /\ status' = [status EXCEPT ![r] = 400]
    /\ detail' = [detail EXCEPT ![r] = UploadDetail(is_pdf, empty)]
    /\ UNCHANGED <<jobVars, gate, reqVars, waited, workdir, pageVars, caption, engineUsed,
                   acquired, released, probeVars>>

\* POST /process/pdf with a valid upload, up to the first suspension of the
\* admission probe: try_admit_now() or try_admit_with_timeout(timeout_s).
\* wait_for with a timeout <= 0 cancels the acquire before it runs and
\* raises TimeoutError; otherwise the acquire takes a slot or queues up.
process_pdf_endpoint(r, w, t) ==
    /\ LoopFree
    /\ pc[r] = "idle"
    /\ \A q \in Requests : q < r => pc[q] # "idle"
    /\ wait_if_busy' = [wait_if_busy EXCEPT ![r] = w]
    /\ timeout_s' = [timeout_s EXCEPT ![r] = t]
    /\ heldAtCall' = [heldAtCall EXCEPT ![r] = Held]
    /\ IF w /\ t = 0
       THEN /\ UNCHANGED gate
            /\ Reject(r, w)
       ELSE /\ gate' = GateAcquire(gate, r)
            /\ pc' = [pc EXCEPT ![r] = IF InQueue(gate', r) THEN "probe_wait" ELSE "probe_ok"]
            /\ UNCHANGED <<status, detail, heldAtReturn, ownedAtReturn>>
    /\ UNCHANGED <<jobVars, waited, workdir, pageVars, caption, engineUsed, acquired, released>>

\* the probe's acquire is resumed with the slot a release handed to it
ProbeWake(r) ==
    /\ LoopFree
    /\ pc[r] = "probe_wait"
    /\ r \in gate.woken
    /\ gate' = GateResume(gate, r)
    /\ pc' = [pc EXCEPT ![r] = "probe_ok"]
    /\ UNCHANGED <<jobVars, reqVars, waited, status, detail, workdir, pageVars, caption,
                   engineUsed, acquired, released, probeVars>>

\* the probe's timeout fires: the acquire is cancelled, try_admit_* returns
\* False and the endpoint raises 429 (fail-fast) or 503 (wait-bounded)
ProbeTimeout(r) ==
    /\ LoopFree
    /\ pc[r] = "probe_wait"
    /\ waited[r] >= Deadline(r)
    /\ gate' = GateCancel(gate, r)
    /\ Reject(r, wait_if_busy[r])
    /\ UNCHANGED <<jobVars, reqVars, waited, workdir, pageVars, caption, engineUsed,
                   acquired, released, heldAtCall>>

\* try_admit_* after a successful acquire: "Immediately release after
\* acquiring" and return True
ProbeKeepsSlot(g, r) == g
ProbeRelease(g, r) == GateRelease(g, r)

\* _admit(): await e.gate.acquire()
Admit(g, r) == GateAcquire(g, r)

\* the job enters the "async with _admit()" block of process_pdf; the
\* request's admission parameters are not used any more
JobEnter(r) ==
    /\ pc' = [pc EXCEPT ![r] = "ocr"]
    /\ acquired' = [acquired EXCEPT ![r] = @ + 1]
    /\ timeout_s' = [timeout_s EXCEPT ![r] = 0]
    /\ waited' = [waited EXCEPT ![r] = 0]
    /\ UNCHANGED wait_if_busy

\* the probe returned True: the endpoint calls process_pdf, which creates
\* the working directory and enters _admit(); the job starts its OCR stage
\* at once or suspends in the acquire
process_pdf(r) ==
    /\ LoopFree
    /\ pc[r] = "probe_ok"
    /\ LET g == ProbeRelease(gate, r)
       IN  /\ heldAtReturn' = [heldAtReturn EXCEPT ![r] = HeldIn(g)]
           /\ ownedAtReturn' = [ownedAtReturn EXCEPT ![r] = g.owned[r]]
           /\ gate' = Admit(g, r)
    /\ IF InQueue(gate', r)
       THEN /\ pc' = [pc EXCEPT ![r] = "admit_wait"]
            /\ UNCHANGED <<acquired, reqVars, waited>>
       ELSE JobEnter(r)
    /\ workdir' = [workdir EXCEPT ![r] = TRUE]
    /\ UNCHANGED <<jobVars, status, detail, pageVars, caption, engineUsed, released, heldAtCall>>

\* _admit()'s acquire is resumed with a slot: the job starts its OCR stage
AdmitWake(r) ==
    /\ LoopFree
    /\ pc[r] = "admit_wait"
    /\ r \in gate.woken
    /\ gate' = GateResume(gate, r)
    /\ JobEnter(r)
    /\ UNCHANGED <<jobVars, status, detail, workdir, pageVars, caption, engineUsed,
                   released, probeVars>>

\* 0.1 s pass. On a free event loop callbacks that are ready run before
\* time moves on, and a probe's timeout fires when its deadline is reached.
Tick ==
    /\ \E r \in Requests : Waiting(r) /\ waited[r] < WaitCap(r)
    /\ LoopFree => \A r \in Requests : ~Runnable(r)
    /\ LoopFree => \A r \in Requests : pc[r] = "probe_wait" => waited[r] < Deadline(r)
    /\ waited' = [r \in Requests |->
                    IF Waiting(r) THEN Min(waited[r] + 1, WaitCap(r)) ELSE waited[r]]
    /\ UNCHANGED <<jobVars, gate, pc, reqVars, status, detail, workdir, pageVars, caption,
                   engineUsed, acquired, released, probeVars>>

\* GET /models/status: StatusResponse(busy=engines_busy()), a read of the
\* gate's value that changes nothing
models_status ==
    /\ LoopFree
    /\ engines_busy(gate) \in BOOLEAN
    /\ UNCHANGED vars

\* ------------------------------------------------------------------ job
\* _admit(): "finally: e.gate.release()", whatever way the body was left
AdmitFinallyOnSuccessOnly(g, r, how) == IF how = "done" THEN GateRelease(g, r) ELSE g
AdmitFinally(g, r, how) == GateRelease(g, r)

\* detail of the HTTPException process_pdf raises for a failed stage
StageDetailSame(stage) == "Caption processing failed"
StageDetail(stage) ==
    IF stage = "ocr" THEN "OCR processing failed" ELSE "Caption processing failed"

\* the model keeps what a request's probe saw until the job makes its next
\* step
ForgetProbe(r) ==
    /\ heldAtCall' = [heldAtCall EXCEPT ![r] = -1]
    /\ heldAtReturn' = [heldAtReturn EXCEPT ![r] = -1]
    /\ ownedAtReturn' = [ownedAtReturn EXCEPT ![r] = -1]

\* the job leaves the "async with _admit()" block of process_pdf; the model
\* follows the pages of a job only while the job runs
JobExit(r, how, st, dt) ==
    /\ gate' = AdmitFinally(gate, r, how)
    /\ released' = [released EXCEPT ![r] = @ + 1]
    /\ pc' = [pc EXCEPT ![r] = how]
    /\ status' = [status EXCEPT ![r] = st]
    /\ detail' = [detail EXCEPT ![r] = dt]
    /\ numPages' = [numPages EXCEPT ![r] = 0]
    /\ pageIdx' = [pageIdx EXCEPT ![r] = 0]
    /\ mdFiles' = [mdFiles EXCEPT ![r] = {}]
    /\ skipped' = [skipped EXCEPT ![r] = {}]

\* run_pdf_pipeline in the worker thread: pdf_to_images gives n pages and
\* the markdown directory is made
OcrRasterize(r, n) ==
    /\ pc[r] = "ocr"
    /\ pc' = [pc EXCEPT ![r] = "pages"]
    /\ numPages' = [numPages EXCEPT ![r] = n]
    /\ ForgetProbe(r)
    /\ UNCHANGED <<jobVars, gate, reqVars, waited, status, detail, workdir, pageIdx,
                   mdFiles, skipped, caption, engineUsed, acquired, released>>

\* an exception leaves run_pdf_pipeline before its page loop (rasterizer,
\* directory creation): process_pdf raises HTTPException 500
OcrStageFail(r) ==
    /\ pc[r] = "ocr"
    /\ JobExit(r, "failed", 500, StageDetail("ocr"))
    /\ ForgetProbe(r)
    /\ UNCHANGED <<jobVars, reqVars, waited, workdir, caption, engineUsed, acquired>>

\* one iteration of the page loop: the OCR engine is called and the
\* markdown file written, or the page's exception is logged and the page
\* skipped
OcrPageAborts(r, ok) ==
    /\ pc[r] = "pages"
    /\ pageIdx[r] < numPages[r]
    /\ IF ok
       THEN /\ pageIdx' = [pageIdx EXCEPT ![r] = @ + 1]
            /\ mdFiles' = [mdFiles EXCEPT ![r] = @ \cup {pageIdx[r] + 1}]
            /\ UNCHANGED <<gate, pc, status, detail, numPages, skipped, released>>
       ELSE JobExit(r, "failed", 500, StageDetail("ocr"))
    /\ engineUsed' = [engineUsed EXCEPT ![r] = TRUE]
    /\ UNCHANGED <<jobVars, reqVars, waited, workdir, caption, acquired, probeVars>>
OcrPage(r, ok) ==
    /\ pc[r] = "pages"
    /\ pageIdx[r] < numPages[r]
    /\ pageIdx' = [pageIdx EXCEPT ![r] = @ + 1]
    /\ mdFiles' = [mdFiles EXCEPT ![r] = IF ok THEN @ \cup {pageIdx[r] + 1} ELSE @]
    /\ skipped' = [skipped EXCEPT ![r] = IF ok THEN @ ELSE @ \cup {pageIdx[r] + 1}]
    /\ engineUsed' = [engineUsed EXCEPT ![r] = TRUE]
    /\ UNCHANGED <<jobVars, gate, pc, reqVars, waited, status, detail, workdir, numPages,
                   caption, acquired, released, probeVars>>

\* the page loop is over: to_thread(_run_ocr) returns and process_pdf
\* hands _run_caption to the worker thread
OcrFinishEarly(r) ==
    /\ pc[r] = "pages"
    /\ pc' = [pc EXCEPT ![r] = "caption"]
    /\ caption' = [caption EXCEPT ![r] = "started"]
    /\ UNCHANGED <<jobVars, gate, reqVars, waited, status, detail, workdir, pageVars,
                   engineUsed, acquired, released, probeVars>>
OcrFinish(r) ==
    /\ pc[r] = "pages"
    /\ pageIdx[r] = numPages[r]
    /\ pc' = [pc EXCEPT ![r] = "caption"]
    /\ caption' = [caption EXCEPT ![r] = "started"]
    /\ UNCHANGED <<jobVars, gate, reqVars, waited, status, detail, workdir, pageVars,
                   engineUsed, acquired, released, probeVars>>

\* run_caption_pipeline ran to its end: process_pdf leaves _admit() and
\* returns out_dir, the endpoint zips it and answers 200
CaptionRun(r) ==
    /\ pc[r] = "caption"
    /\ caption' = [caption EXCEPT ![r] = "finished"]
    /\ engineUsed' = [engineUsed EXCEPT ![r] = TRUE]
    /\ JobExit(r, "done", 200, "")
    /\ UNCHANGED <<jobVars, reqVars, waited, workdir, acquired, probeVars>>

\* an exception leaves run_caption_pipeline: HTTPException 500
CaptionStageFail(r) ==
    /\ pc[r] = "caption"
    /\ JobExit(r, "failed", 500, StageDetail("caption"))
    /\ UNCHANGED <<jobVars, reqVars, waited, workdir, caption, engineUsed, acquired, probeVars>>

\* CancelledError reaches the request's task where process_pdf is
\* suspended: in _admit()'s acquire (nothing to release) or in an await of
\* to_thread (the finally of _admit releases)
Cancel(r) ==
    /\ LoopFree
    /\ pc[r] \in StagePcs \cup {"admit_wait"}
    /\ IF pc[r] = "admit_wait"
       THEN /\ gate' = GateCancel(gate, r)
            /\ pc' = [pc EXCEPT ![r] = "cancelled"]
            /\ UNCHANGED <<released, status, detail, pageVars>>
       ELSE JobExit(r, "cancelled", 0, "")
    /\ timeout_s' = [timeout_s EXCEPT ![r] = 0]
    /\ waited' = [waited EXCEPT ![r] = 0]
    /\ ForgetProbe(r)
    /\ UNCHANGED <<jobVars, wait_if_busy, workdir, caption, engineUsed, acquired>>

\* a step of the service whose uploads have a page count among counts
NextWith(counts) ==
    \/ \E r \in Requests, is_pdf, empty \in BOOLEAN : UploadRefused(r, is_pdf, empty)
    \/ \E r \in Requests : process_pdf_endpoint(r, FALSE, 0)
    \/ \E r \in Requests, t \in Timeouts : process_pdf_endpoint(r, TRUE, t)
    \/ \E r \in Requests : ProbeWake(r)
    \/ \E r \in Requests : ProbeTimeout(r)
    \/ \E r \in Requests : process_pdf(r)
    \/ \E r \in Requests : AdmitWake(r)
    \/ Tick
    \/ \E r \in Requests, n \in counts : OcrRasterize(r, n)
    \/ \E r \in Requests : OcrStageFail(r)
    \/ \E r \in Requests, ok \in BOOLEAN : OcrPage(r, ok)
    \/ \E r \in Requests : OcrFinish(r)
    \/ \E r \in Requests : CaptionRun(r)
    \/ \E r \in Requests : CaptionStageFail(r)
    \/ \E r \in Requests : Cancel(r)
    \/ models_status

Next == NextWith(PageCounts)

Spec == Init /\ [][Next]_vars

\* The same service under fair scheduling, with uploads of one page at
\* most. The event loop runs every callback that is ready (call_soon keeps
\* them in a FIFO queue), and the worker thread of a job goes on until the
\* stage returns or raises.
FairPageCounts == {0, 1}
NextFair == NextWith(FairPageCounts)
LoopStep(r) == ProbeWake(r) \/ process_pdf(r) \/ AdmitWake(r)
JobStep(r) ==
    \/ \E n \in FairPageCounts : OcrRasterize(r, n)
    \/ OcrStageFail(r)
    \/ \E ok \in BOOLEAN : OcrPage(r, ok)
    \/ OcrFinish(r)
    \/ CaptionRun(r)
    \/ CaptionStageFail(r)
Fairness == \A r \in Requests : WF_vars(LoopStep(r)) /\ WF_vars(JobStep(r))
SpecFair == Init /\ [][NextFair]_vars /\ Fairness

\* ----------------------------------------------------- engines and stages
\* The second specification follows the process from its start and one job
\* at a time through the worker thread: init_engines, _run_ocr and
\* _run_caption of process_pdf, run_caption_pipeline and
\* caption_markdown_file.

\* the model follows a markdown file only while caption_markdown_file
\* works on it, and a job only while it runs
ForgetFile ==
    /\ text' = <<>>
    /\ missing' = {}
    /\ matches' = <<>>
    /\ mIdx' = 0
    /\ captions_cache' = {}
    /\ calls' = [rel \in Rels |-> 0]
    /\ new_text' = <<>>
    /\ changed' = FALSE
ForgetJob ==
    /\ ocr_used' = 0
    /\ cap_used' = 0
    /\ rewrite' = "append"
    /\ filesLeft' = 0

\* Engines.gate before init_engines has run
NoGate == NewGate(0)

\* init_engines(..., gpu_slots): "if _engines is not None: return", else the
\* OCR engine and the captioner are constructed and the registry is made
init_engines(gpu_slots) ==
    /\ cpc \in {"startup", "idle"}
    /\ IF engines.ocr # 0
       THEN UNCHANGED <<gate, engines, built>>
       ELSE /\ engines' = [ocr |-> built + 1, vl2 |-> built + 2]
            /\ built' = built + 2
            /\ gate' = NewGate(gpu_slots)
    /\ cpc' = "idle"
    /\ UNCHANGED <<requestVars, ocrVars, ocr_used, cap_used, rewrite, filesLeft, fileVars>>

\* init_engines raises while it loads the models, after k engines were
\* constructed: _engines is assigned in its last statement only, so the
\* registry stays None; the lifespan's start-up has failed
init_engines_raises(k) ==
    /\ cpc = "startup"
    /\ engines.ocr = 0
    /\ built' = built + k
    /\ cpc' = "init_failed"
    /\ UNCHANGED <<gate, requestVars, ocrVars, engines, ocr_used, cap_used, rewrite, filesLeft, fileVars>>

\* get_engines(): "if _engines is None: raise RuntimeError"
GetEnginesReturnsNone(e) == FALSE
GetEnginesRaises(e) == e.ocr = 0

\* POST /process/pdf with a valid upload reaches the endpoint although the
\* start-up failed: try_admit_now / try_admit_with_timeout start with
\* get_engines(), whose RuntimeError leaves the endpoint as a 500
EndpointWithoutEngines(r, w) ==
    /\ cpc = "init_failed"
    /\ GetEnginesRaises(engines)
    /\ pc[r] = "idle"
    /\ \A q \in Requests : q < r => pc[q] # "idle"
    /\ wait_if_busy' = [wait_if_busy EXCEPT ![r] = w]
    /\ pc' = [pc EXCEPT ![r] = "error"]
    /\ status' = [status EXCEPT ![r] = 500]
    /\ UNCHANGED <<gate, jobVars, timeout_s, waited, detail, workdir, pageVars, caption,
                   engineUsed, acquired, released, probeVars>>

\* run_pdf_pipeline(..., ocr_engine): "if ocr_engine is not None: ocr =
\* ocr_engine", else a DeepSeekOCREngine is constructed; 0 stands for a
\* handle that is constructed
OcrEngineOf(ocr_engine) == ocr_engine
\* run_caption_pipeline(..., captioner): "if captioner is None: captioner =
\* DeepSeekVL2Captioner(...)"
CaptionerOf(captioner) == captioner

\* _run_ocr of process_pdf: run_pdf_pipeline(ocr_engine=engines.ocr) leaves
\* n markdown files; the request asked for the rewrite mode
run_pdf_pipeline(mode, n) ==
    /\ cpc \in {"idle", "init_failed"}
    /\ ~GetEnginesRaises(engines)
    /\ built < MaxEngines
    /\ LET ocr == OcrEngineOf(engines.ocr)
       IN  /\ ocr_used' = IF ocr = 0 THEN built + 1 ELSE ocr
           /\ built' = IF ocr = 0 THEN built + 1 ELSE built
    /\ rewrite' = mode
    /\ filesLeft' = n
    /\ cpc' = "ocr_done"
    /\ UNCHANGED <<gate, requestVars, ocrVars, engines, cap_used, fileVars>>

\* _run_caption of process_pdf calls run_caption_pipeline(output_dir,
\* caption_model, gpu_mem, seed, rewrite): no captioner is handed over
RunCaptionArg(e) == 0

\* run_caption_pipeline up to its loop over the markdown files
run_caption_pipeline ==
    /\ cpc = "ocr_done"
    /\ LET captioner == CaptionerOf(RunCaptionArg(engines))
       IN  /\ cap_used' = IF captioner = 0 THEN built + 1 ELSE captioner
           /\ built' = IF captioner = 0 THEN built + 1 ELSE built
    /\ cpc' = "files"
    /\ UNCHANGED <<gate, requestVars, ocrVars, engines, ocr_used, rewrite, filesLeft, fileVars>>

\* run_caption_pipeline raises before its loop (the markdown directory is
\* not there, or the captioner cannot be constructed): process_pdf raises
\* HTTPException 500 and the job is over
run_caption_pipeline_raises ==
    /\ cpc = "ocr_done"
    /\ cpc' = "failed"
    /\ UNCHANGED <<gate, requestVars, ocrVars, engineVars, ocr_used, cap_used, rewrite,
                   filesLeft, fileVars>>

\* the failed job's response is sent
JobFailedEnd ==
    /\ cpc = "failed"
    /\ cpc' = "idle"
    /\ ForgetJob
    /\ ForgetFile
    /\ UNCHANGED <<gate, requestVars, ocrVars, engineVars>>

\* caption_markdown_file, up to the caption loop: the file is read and its
\* image tags found; without a tag it returns False
CaptionFileReadReportsChange(t, miss) ==
    /\ cpc = "files"
    /\ filesLeft > 0
    /\ miss \subseteq RelsIn(FindIter(t, 1))
    /\ text' = t
    /\ missing' = miss
    /\ matches' = FindIter(t, 1)
    /\ mIdx' = 1
    /\ captions_cache' = {}
    /\ calls' = [rel \in Rels |-> 0]
    /\ new_text' = t
    /\ changed' = TRUE
    /\ cpc' = IF matches' = <<>> THEN "file_done" ELSE "refs"
    /\ UNCHANGED <<gate, requestVars, ocrVars, engineVars, ocr_used, cap_used, rewrite, filesLeft>>
CaptionFileRead(t, miss) ==
    /\ cpc = "files"
    /\ filesLeft > 0
    /\ miss \subseteq RelsIn(FindIter(t, 1))
    /\ text' = t
    /\ missing' = miss
    /\ matches' = FindIter(t, 1)
    /\ mIdx' = 1
    /\ captions_cache' = {}
    /\ calls' = [rel \in Rels |-> 0]
    /\ new_text' = t
    /\ changed' = FALSE
    /\ cpc' = IF matches' = <<>> THEN "file_done" ELSE "refs"
    /\ UNCHANGED <<gate, requestVars, ocrVars, engineVars, ocr_used, cap_used, rewrite, filesLeft>>

\* one round of "for m in matches": a cached reference and a missing image
\* are passed over; else the engine is called, and its caption cached
\* unless it raised
CaptionRefPropagates(raised, cap) ==
    /\ cpc = "refs"
    /\ mIdx <= Len(matches)
    /\ LET rel == matches[mIdx].rel
       IN  IF InCache(captions_cache, rel) \/ rel \in missing
           THEN UNCHANGED <<captions_cache, calls, cpc>>
           ELSE /\ calls' = [calls EXCEPT ![rel] = @ + 1]
                /\ captions_cache' = IF raised THEN captions_cache
                                     ELSE captions_cache \cup {<<rel, cap>>}
                /\ cpc' = IF raised THEN "failed" ELSE cpc
    /\ mIdx' = mIdx + 1
    /\ UNCHANGED <<gate, requestVars, ocrVars, engineVars, ocr_used, cap_used, rewrite,
                   filesLeft, text, missing, matches, new_text, changed>>
CaptionRef(raised, cap) ==
    /\ cpc = "refs"
    /\ mIdx <= Len(matches)
    /\ LET rel == matches[mIdx].rel
       IN  IF InCache(captions_cache, rel) \/ rel \in missing
           THEN UNCHANGED <<captions_cache, calls>>
           ELSE /\ calls' = [calls EXCEPT ![rel] = @ + 1]
                /\ captions_cache' = IF raised THEN captions_cache
                                     ELSE captions_cache \cup {<<rel, cap>>}
    /\ mIdx' = mIdx + 1
    /\ UNCHANGED <<gate, requestVars, ocrVars, engineVars, workerVars, text, missing,
                   matches, new_text, changed>>

\* after the loop: new_text = _IMG_TAG.sub(repl, text), written if it
\* differs from text; returns whether it did
CaptionRewriteFile ==
    /\ cpc = "refs"
    /\ mIdx > Len(matches)
    /\ new_text' = ImgTagSub(text, captions_cache, rewrite)
    /\ changed' = (new_text' # text)
    /\ cpc' = "file_done"
    /\ UNCHANGED <<gate, requestVars, ocrVars, engineVars, ocr_used, cap_used, rewrite,
                   filesLeft, text, missing, matches, mIdx, captions_cache, calls>>

\* the loop of run_caption_pipeline goes on to the next markdown file
CaptionFileNext ==
    /\ cpc = "file_done"
    /\ cpc' = "files"
    /\ filesLeft' = filesLeft - 1
    /\ ForgetFile
    /\ UNCHANGED <<gate, requestVars, ocrVars, engineVars, ocr_used, cap_used, rewrite>>

\* caption_markdown_file raises (the file cannot be read): "except
\* Exception: logger.exception", and the loop goes on
CaptionFileRaises ==
    /\ cpc = "files"
    /\ filesLeft > 0
    /\ filesLeft' = filesLeft - 1
    /\ UNCHANGED <<gate, requestVars, ocrVars, engineVars, cpc, ocr_used, cap_used, rewrite, fileVars>>

\* run_caption_pipeline returns: the job is over
CaptionPipelineEnd ==
    /\ cpc = "files"
    /\ filesLeft = 0
    /\ cpc' = "idle"
    /\ ForgetJob
    /\ UNCHANGED <<gate, requestVars, ocrVars, engineVars, fileVars>>

InitCaption ==
    /\ gate = NoGate
    /\ RequestsIdle
    /\ engines = [ocr |-> 0, vl2 |-> 0]
    /\ built = 0
    /\ cpc = "startup"
    /\ NoJob
    /\ NoFile
    /\ NoOcrCall

NextCaption ==
    \/ \E n \in 1..MaxSlots : init_engines(n)
    \/ \E k \in 0..1 : init_engines_raises(k)
    \/ \E r \in Requests, w \in BOOLEAN : EndpointWithoutEngines(r, w)
    \/ \E mode \in RewriteModes, n \in 0..MaxPages : run_pdf_pipeline(mode, n)
    \/ run_caption_pipeline
    \/ run_caption_pipeline_raises
    \/ JobFailedEnd
    \/ \E t \in Texts, miss \in SUBSET Rels : CaptionFileRead(t, miss)
    \/ \E raised \in BOOLEAN, cap \in Captions : CaptionRef(raised, cap)
    \/ CaptionRewriteFile
    \/ CaptionFileNext
    \/ CaptionFileRaises
    \/ CaptionPipelineEnd

SpecCaption == InitCaption /\ [][NextCaption]_vars

\* ------------------------------------------------- the OCR page loop
\* The third specification follows calls of run_pdf_pipeline statement by
\* statement, for every argument a caller can hand over: an ocr_engine or
\* None, a cancel_evt or None. The event can be set by its owner at any
\* moment of the call. process_pdf is the caller: it goes on to the
\* caption stage when the call returns.

\* the arguments _run_ocr of process_pdf hands over: the registry's OCR
\* engine, and no cancel_evt
RunOcrEngineArg(e) == e.ocr
RunOcrCancelEvtArg == "none"

\* the cancel_evt arguments of the calls followed: none, or an event
CancelEvtArgs == {RunOcrCancelEvtArg, "clear"}

\* run_pdf_pipeline is called, with the registry's engine or with no
\* ocr_engine, and pdf_to_images starts; ocr_used keeps the ocr_engine
\* argument until the engine is chosen
RunPdfPipelineCall(with_engine, evt) ==
    /\ cpc = "idle"
    /\ built < MaxEngines
    /\ cpc' = "rasterizing"
    /\ ocr_used' = IF with_engine THEN RunOcrEngineArg(engines) ELSE 0
    /\ cancel_evt' = evt
    /\ pages' = 0
    /\ page_i' = 0
    /\ md_pages' = {}
    /\ UNCHANGED <<gate, requestVars, engineVars, cap_used, rewrite, filesLeft, fileVars>>

\* cancel_evt.set(), by whoever owns the event, while pdf_to_images or a
\* page's OCR runs (the statements between them take no time)
CancelEvtSet ==
    /\ cpc \in {"rasterizing", "in_page"}
    /\ cancel_evt = "clear"
    /\ cancel_evt' = "set"
    /\ UNCHANGED <<gate, requestVars, engineVars, workerVars, fileVars, pages, page_i, md_pages>>

\* "if cancel_evt and cancel_evt.is_set()"
CancelSeen == cancel_evt = "set"

\* pdf_to_images returned n pages: the check after it raises
\* CancelledError, or the engine is chosen and the markdown directory made
OcrRasterized(n) ==
    /\ cpc = "rasterizing"
    /\ pages' = n
    /\ IF CancelSeen
       THEN /\ cpc' = "ocr_cancelled"
            /\ UNCHANGED <<ocr_used, built>>
       ELSE /\ cpc' = "loop"
            /\ LET ocr == OcrEngineOf(ocr_used)
               IN  /\ ocr_used' = IF ocr = 0 THEN built + 1 ELSE ocr
                   /\ built' = IF ocr = 0 THEN built + 1 ELSE built
    /\ UNCHANGED <<gate, requestVars, engines, cap_used, rewrite, filesLeft, fileVars,
                   cancel_evt, page_i, md_pages>>

\* the head of a round of the page loop: the check raises CancelledError,
\* outside the round's try block, or the page's OCR starts
OcrPageStart ==
    /\ cpc = "loop"
    /\ page_i < pages
    /\ cpc' = IF CancelSeen THEN "ocr_cancelled" ELSE "in_page"
    /\ UNCHANGED <<gate, requestVars, engineVars, ocr_used, cap_used, rewrite, filesLeft,
                   fileVars, ocrVars>>

\* the page's OCR ends: its markdown file is written, or its exception is
\* logged by "except Exception" and the page skipped
OcrPageEnd(ok) ==
    /\ cpc = "in_page"
    /\ page_i' = page_i + 1
    /\ md_pages' = IF ok THEN md_pages \cup {page_i + 1} ELSE md_pages
    /\ cpc' = "loop"
    /\ UNCHANGED <<gate, requestVars, engineVars, ocr_used, cap_used, rewrite, filesLeft,
                   fileVars, cancel_evt, pages>>

\* the loop is over and run_pdf_pipeline returns; nothing looks at the
\* event after the last page
OcrLoopEnd ==
    /\ cpc = "loop"
    /\ page_i = pages
    /\ cpc' = "ocr_done"
    /\ UNCHANGED <<gate, requestVars, engineVars, ocr_used, cap_used, rewrite, filesLeft,
                   fileVars, ocrVars>>

\* process_pdf after "await asyncio.to_thread(_run_ocr)" returned: the
\* caption stage starts
CaptionStageStart ==
    /\ cpc = "ocr_done"
    /\ cpc' = "captioning"
    /\ UNCHANGED <<gate, requestVars, engineVars, ocr_used, cap_used, rewrite, filesLeft,
                   fileVars, ocrVars>>

\* the job is over: the caption stage ended, or the CancelledError of the
\* OCR stage, which "except Exception" of process_pdf does not catch, left
\* process_pdf
OcrJobOver ==
    /\ cpc \in {"captioning", "ocr_cancelled"}
    /\ cpc' = "idle"
    /\ ocr_used' = 0
    /\ cancel_evt' = "none"
    /\ pages' = 0
    /\ page_i' = 0
    /\ md_pages' = {}
    /\ UNCHANGED <<gate, requestVars, engineVars, cap_used, rewrite, filesLeft, fileVars>>

NextOcr ==
    \/ \E with_engine \in BOOLEAN, evt \in CancelEvtArgs : RunPdfPipelineCall(with_engine, evt)
    \/ CancelEvtSet
    \/ \E n \in PageCounts : OcrRasterized(n)
    \/ OcrPageStart
    \/ \E ok \in BOOLEAN : OcrPageEnd(ok)
    \/ OcrLoopEnd
    \/ CaptionStageStart
    \/ OcrJobOver

SpecOcr == Init /\ [][NextOcr]_vars

TypeOK ==
    /\ gate.value \in Int
    /\ pc \in [Requests -> PcValues]
    /\ \A r \in Requests : waited[r] \in 0..WaitCap(r)

\* ------------------------------------------------------------ properties
RECURSIVE SumOwnedUpTo(_, _)
SumOwnedUpTo(g, n) == IF n = 0 THEN 0 ELSE g.owned[n] + SumOwnedUpTo(g, n - 1)
\* slots owned by all requests together
SumOwned(g) == SumOwnedUpTo(g, NumRequests)

\* the job is inside the GPU critical section of process_pdf
InCriticalSection(r) == pc[r] \in StagePcs
\* the probe let the request through and its job has not ended
PastAdmission(r) == pc[r] \in StagePcs \cup {"admit_wait"}
\* process_pdf ended for the request
JobEnded(r) == pc[r] \in {"failed", "cancelled", "done"}

\* C1: at any moment at most N (the gate's capacity) jobs are inside the OCR
\* or caption stage of process_pdf, whatever the policies and interleaving.
C1_AtMostNInCriticalSection ==
    Cardinality({r \in Requests : InCriticalSection(r)}) <= gate.bound_value

\* all N slots are in use by running jobs while another admitted request
\* is suspended in _admit
C1_Witness ==
    /\ Cardinality({r \in Requests : InCriticalSection(r)}) = gate.bound_value
    /\ \E r \in Requests : pc[r] = "admit_wait"

\* C2: under every interleaving of probe acquires, job acquires, time-outs
\* and releases, held stays within 0..N, no release raises or is made by a
\* request that owns no slot, and the slots taken out of the gate are
\* exactly those the requests own (each owns 0 or 1).
C2_HeldWithinBounds ==
    /\ Held \in 0..gate.bound_value
    /\ ~gate.error
    /\ ~gate.unpaired
    /\ \A r \in Requests : gate.owned[r] \in 0..1
    /\ Held = SumOwned(gate)

\* a probe found the gate full and timed out, and a job has released
C2_Witness ==
    \E r, q \in Requests :
        /\ pc[r] = "rejected" /\ waited[r] > 0
        /\ heldAtCall[r] = gate.bound_value
        /\ released[q] = 1

\* C3 (as claimed): with capacity 1, of two fail-fast requests submitted
\* together exactly one is admitted and the other gets the busy rejection,
\* so the two are never both past admission with their jobs unfinished.
C3_TwoFailFastOneAdmitted ==
    (/\ gate.bound_value = 1
     /\ \A r \in {1, 2} : pc[r] # "idle" /\ ~wait_if_busy[r])
        => ~(PastAdmission(1) /\ PastAdmission(2))

\* C4 (as claimed): a fail-fast request never waits for another job to
\* finish: all the time it spends suspended on the gate, in its probe and in
\* _admit together, is within the probe's slack.
C4_FailFastNeverWaits ==
    \A r \in Requests :
        (pc[r] # "idle" /\ ~wait_if_busy[r] /\ Waiting(r))
            => waited[r] <= ProbeSlack

\* C5 (as claimed): a wait-bounded request is suspended on the gate for at
\* most timeout_s in total, and is rejected exactly when timeout_s elapsed.
C5_WaitBoundedByTimeout ==
    \A r \in Requests :
        (pc[r] # "idle" /\ wait_if_busy[r])
            => /\ Waiting(r) => waited[r] <= timeout_s[r]
               /\ pc[r] = "rejected" => waited[r] = timeout_s[r]

\* try_admit_now has returned for the request (and the job has not moved on)
TryAdmitNowReturned(r) == ~wait_if_busy[r] /\ heldAtReturn[r] >= 0

C7_ReleasedExactlyOnce ==
    /\ \A r \in Requests :
        /\ InCriticalSection(r)
              => acquired[r] = 1 /\ released[r] = 0 /\ gate.owned[r] = 1
        /\ pc[r] \in {"failed", "done"}
              => acquired[r] = 1 /\ released[r] = 1 /\ gate.owned[r] = 0
        /\ pc[r] = "cancelled"
              => acquired[r] <= 1 /\ released[r] = acquired[r] /\ gate.owned[r] = 0
    /\ ~gate.error
    /\ Held = SumOwned(gate)

\* a job failed, released, and the waiting job got its slot
C7_Witness ==
    \E r, q \in Requests :
        /\ pc[r] = "failed" /\ released[r] = 1
        /\ InCriticalSection(q) /\ gate.bound_value = 1

\* C8: a request rejected by admission owns no slot, is not queued on the
\* gate, never entered _admit, has no working directory and made no engine
\* call; the slots out of the gate are those the other requests own.
C8_RejectionLeavesNothing ==
    \A r \in Requests :
        pc[r] = "rejected" =>
            /\ status[r] \in {429, 503}
            /\ gate.owned[r] = 0 /\ ownedAtReturn[r] = 0
            /\ ~InQueue(gate, r)
            /\ acquired[r] = 0 /\ released[r] = 0
            /\ ~workdir[r] /\ ~engineUsed[r] /\ caption[r] = "no"
            /\ Held = SumOwned(gate)

\* a request timed out on a busy gate while another request's job runs
C8_Witness ==
    \E r, q \in Requests :
        /\ pc[r] = "rejected" /\ waited[r] > 0
        /\ InCriticalSection(q)

\* C9: an exception leaving the OCR stage fails the job with a 500 whose
\* detail names OCR, the caption stage not started and the gate released;
\* one leaving the caption stage fails it with a 500 whose detail names
\* captioning and the gate released.
C9_StageFailureAttributed ==
    \A r \in Requests :
        /\ pc[r] = "failed"
              => /\ status[r] = 500
                 /\ detail[r] \in {"OCR processing failed", "Caption processing failed"}
                 /\ released[r] = 1 /\ gate.owned[r] = 0
        /\ detail[r] = "OCR processing failed"
              => pc[r] = "failed" /\ caption[r] = "no"
        /\ detail[r] = "Caption processing failed"
              => pc[r] = "failed" /\ caption[r] = "started"

\* one job failed in its OCR stage and another in its caption stage
C9_Witness ==
    \E r, q \in Requests :
        /\ detail[r] = "OCR processing failed"
        /\ detail[q] = "Caption processing failed"

\* C10: the caption stage starts only when the page loop has gone through
\* every page, and from the start of the OCR stage to the end of the
\* caption stage the job owns one slot, acquired once and not released.
C10_CaptionAfterOcrUnderOneHold ==
    \A r \in Requests :
        /\ pc[r] = "caption" => pageIdx[r] = numPages[r] /\ caption[r] = "started"
        /\ pc[r] \in {"ocr", "pages"} => caption[r] = "no"
        /\ InCriticalSection(r)
              => acquired[r] = 1 /\ released[r] = 0 /\ gate.owned[r] = 1

\* a job is in its caption stage after a page loop that skipped a page
C10_Witness ==
    \E r \in Requests :
        /\ pc[r] = "caption" /\ numPages[r] = MaxPages
        /\ mdFiles[r] # 1..numPages[r]

\* C12: a page whose OCR raises is skipped and nothing else: the page loop
\* goes on, an exception of a page never fails the job, and when the loop
\* ends and when the job is done a markdown file has been written for every
\* page but the skipped ones; the job then answers 200.
C12_PageFailureIsolated ==
    [][\A r \in Requests :
        /\ pc[r] = "pages" => pc'[r] \in {"pages", "caption", "cancelled"}
        /\ (pc[r] = "pages" /\ pc'[r] = "pages" /\ pageIdx'[r] # pageIdx[r]) =>
              /\ pageIdx'[r] = pageIdx[r] + 1
              /\ mdFiles'[r] \cup skipped'[r] = 1..pageIdx'[r]
              /\ mdFiles'[r] \cap skipped'[r] = {}
              /\ mdFiles[r] \subseteq mdFiles'[r] /\ skipped[r] \subseteq skipped'[r]
        /\ (pc[r] = "pages" /\ pc'[r] = "caption") =>
              pageIdx[r] = numPages[r] /\ mdFiles[r] = (1..numPages[r]) \ skipped[r]
        /\ (pc[r] = "caption" /\ pc'[r] = "done") =>
              status'[r] = 200 /\ mdFiles[r] = (1..numPages[r]) \ skipped[r]]_vars

\* the first page was skipped, the page after it got its markdown file and
\* the job is in its caption stage
C12_Witness ==
    \E r \in Requests :
        /\ pc[r] = "caption" /\ caption[r] = "started"
        /\ 1 \in skipped[r] /\ 2 \in mdFiles[r]

\* C18 (as claimed): try_admit_with_timeout(0) never waits, and reports
\* failure only when no slot was free at the moment of the call: a slot free
\* at the call gives success.
C18_ZeroTimeoutProbe ==
    \A r \in Requests :
        (wait_if_busy[r] /\ timeout_s[r] = 0 /\ pc[r] = "rejected")
            => waited[r] = 0 /\ heldAtCall[r] = gate.bound_value

\* the Retry-After header of the request's response, 0 if it has none
RetryAfter(r) == IF pc[r] = "rejected" THEN BusyRetryAfter(wait_if_busy[r]) ELSE 0

\* C19: a fail-fast rejection is 429 with Retry-After 15, a wait-bounded
\* one 503 with Retry-After 30 (the longer hint), a stage failure 500 with
\* a detail naming the stage; a rejected request never entered a stage and
\* a request with a stage failure had been admitted.
C19_OutcomesDistinguishable ==
    /\ BusyRetryAfter(FALSE) < BusyRetryAfter(TRUE)
    /\ \A r \in Requests :
        /\ (pc[r] = "rejected" /\ ~wait_if_busy[r])
              => status[r] = 429 /\ RetryAfter(r) = 15 /\ detail[r] = "GPU is busy"
        /\ (pc[r] = "rejected" /\ wait_if_busy[r])
              => /\ status[r] = 503 /\ RetryAfter(r) = 30
                 /\ detail[r] = "GPU is still busy after waiting"
        /\ pc[r] = "failed"
              => /\ status[r] = 500 /\ RetryAfter(r) = 0 /\ acquired[r] = 1
                 /\ detail[r] \in {"OCR processing failed", "Caption processing failed"}
        /\ status[r] \in {429, 503} => pc[r] = "rejected" /\ acquired[r] = 0
        /\ status[r] = 500 => pc[r] = "failed"

\* one request was refused after its bounded wait and the other failed in
\* a stage
C19_Witness ==
    \E r, q \in Requests :
        /\ status[r] = 503 /\ waited[r] > 0
        /\ status[q] = 500

\* C20: engines_busy is true exactly when every slot of the gate is owned
\* by a request; with one slot it is true whenever a job is in its OCR or
\* caption stage.
C20_BusyIffNoFreeSlot ==
    /\ engines_busy(gate) = (SumOwned(gate) = gate.bound_value)
    /\ (gate.bound_value = 1 /\ \E r \in Requests : InCriticalSection(r))
          => engines_busy(gate)

\* with two slots one job runs and the gate is not busy
C20_Witness ==
    /\ gate.bound_value = 2
    /\ \E r \in Requests : pc[r] = "caption"
    /\ ~engines_busy(gate)

\* ------------------------------------------- properties of the stages
\* C11 (as claimed): the registry is made once, a later init_engines call
\* changes nothing, every stage works with the registry's handles and no
\* engine is constructed beyond the registry's two.
C11_EnginesFromRegistryOnly ==
    /\ built <= 2
    /\ engines.ocr # 0 => engines = [ocr |-> 1, vl2 |-> 2]
    /\ ocr_used \in {0, engines.ocr}
    /\ cap_used \in {0, engines.vl2}

\* caption_markdown_file has returned for the file at hand
FileDone == cpc = "file_done"
\* the reference got a caption that is not empty
Captioned(rel) == CacheGet(captions_cache, rel) # <<>>
\* the text has no image reference
NoImageRef(txt) == \A i \in 1..Len(txt) : MatchAt(txt, i).last = 0

\* what the stage is to leave in place of the i-th image tag of the file:
\* the tag itself if its reference has no caption; in replace mode the
\* inline caption; in append mode the tag and, after it, the caption line
TagText(i) == SubSeq(text, matches[i].first, matches[i].last)
AltText(i) == Strip(IF matches[i].alt = <<>> THEN <<"I", "m", "a", "g", "e">> ELSE matches[i].alt)
CaptionLine(i) ==
    <<"\n", "\n", "*">> \o AltText(i) \o <<" ", "-", " ">>
        \o CacheGet(captions_cache, matches[i].rel) \o <<"*", "\n">>
InlineText(i) ==
    AltText(i) \o <<" (Interpreted and captioned): ">> \o CacheGet(captions_cache, matches[i].rel)
ExpectedPiece(i) ==
    IF ~Captioned(matches[i].rel) THEN TagText(i)
    ELSE IF rewrite = "replace" THEN InlineText(i)
    ELSE TagText(i) \o CaptionLine(i)

\* how far the text after the i-th tag has moved in the new text
RECURSIVE Shift(_)
Shift(i) == IF i = 0 THEN 0 ELSE Shift(i - 1) + Len(ExpectedPiece(i)) - Len(TagText(i))
\* the new text has the length the expected pieces give it
LengthFits == Len(new_text) = Len(text) + Shift(Len(matches))
\* the part of the new text that stands where the i-th tag stood
PieceAt(i) == SubSeq(new_text, matches[i].first + Shift(i - 1), matches[i].last + Shift(i))
\* the text between the i-th tag and the next (before the first for i = 0,
\* after the last for i = Len(matches)), in the file as read and as left
GapOld(i) ==
    SubSeq(text, IF i = 0 THEN 1 ELSE matches[i].last + 1,
                 IF i = Len(matches) THEN Len(text) ELSE matches[i + 1].first - 1)
GapNew(i) ==
    SubSeq(new_text, IF i = 0 THEN 1 ELSE matches[i].last + Shift(i) + 1,
                     IF i = Len(matches) THEN Len(new_text)
                     ELSE matches[i + 1].first + Shift(i) - 1)

\* C13: a reference whose image is missing or whose captioning raised is
\* passed over and its tags stay as they were; every other reference of the
\* file is still handed to the engine, all matches are gone through, and the
\* caption stage fails only before it has a captioner, never on a reference.
C13_ReferenceFailureIsolated ==
    /\ cpc = "failed" => cap_used = 0 /\ text = <<>>
    /\ \A rel \in missing : calls[rel] = 0 /\ ~InCache(captions_cache, rel)
    /\ (FileDone /\ matches # <<>>) =>
          /\ mIdx = Len(matches) + 1
          /\ \A rel \in RelsIn(matches) \ missing : calls[rel] >= 1
          /\ LengthFits
          /\ \A i \in 1..Len(matches) :
                ~InCache(captions_cache, matches[i].rel) => PieceAt(i) = TagText(i)

\* captioning raised for one reference, and a later reference of the same
\* file got its caption
C13_Witness ==
    /\ FileDone
    /\ \E i, j \in 1..Len(matches) :
          /\ i < j
          /\ calls[matches[i].rel] >= 1 /\ ~InCache(captions_cache, matches[i].rel)
          /\ Captioned(matches[j].rel)
          /\ PieceAt(j) # TagText(j)

\* C14 (as claimed): within one file the engine is called exactly once for
\* each distinct reference (whose image exists), however often it occurs.
C14_OneCallPerReference ==
    FileDone => \A rel \in RelsIn(matches) \ missing : calls[rel] = 1

\* C15: in append mode every tag whose reference was captioned stands
\* unchanged in the new text, the caption line right after it, and the text
\* outside the tags is as it was; the file is reported changed exactly when
\* a caption line was added.
C15_AppendKeepsTags ==
    (FileDone /\ rewrite = "append" /\ matches # <<>>) =>
        /\ LengthFits
        /\ \A i \in 1..Len(matches) :
              Captioned(matches[i].rel) => PieceAt(i) = TagText(i) \o CaptionLine(i)
        /\ \A i \in 0..Len(matches) : GapNew(i) = GapOld(i)
        /\ changed = (\E i \in 1..Len(matches) : Captioned(matches[i].rel))

\* a tag with an alt text to strip was captioned in append mode, in a file
\* with text around its tags
C15_Witness ==
    /\ FileDone /\ rewrite = "append"
    /\ \E i \in 1..Len(matches) :
          /\ Captioned(matches[i].rel)
          /\ matches[i].alt # AltText(i)
    /\ \E i \in 0..Len(matches) : GapOld(i) # <<>>

\* C16 (as claimed): in replace mode no markdown image syntax remains in a
\* file the caption stage has processed.
C16_ReplaceLeavesNoImageSyntax ==
    (FileDone /\ rewrite = "replace") => FindIter(new_text, 1) = <<>>

\* C16 (amended): in replace mode every tag whose reference got a caption is
\* replaced by the inline captioned text, a tag whose reference got none
\* stays; if every tag got its caption and no tag lies within another's alt
\* text, no image syntax remains.
C16_ReplaceCaptionedTags ==
    (FileDone /\ rewrite = "replace" /\ matches # <<>>) =>
        /\ LengthFits
        /\ \A i \in 1..Len(matches) :
              PieceAt(i) = IF Captioned(matches[i].rel) THEN InlineText(i) ELSE TagText(i)
        /\ (\A i \in 1..Len(matches) :
                /\ Captioned(matches[i].rel)
                /\ \A k \in 1..Len(matches[i].alt) : matches[i].alt[k] # "!")
              => FindIter(new_text, 1) = <<>>

\* two tags were replaced by their inline captions and no tag is left
C16_Witness ==
    /\ FileDone /\ rewrite = "replace"
    /\ Len(matches) >= 2
    /\ \A i \in 1..Len(matches) : Captioned(matches[i].rel)
    /\ FindIter(new_text, 1) = <<>>

\* C17: for a file without an image reference caption_markdown_file returns
\* False, calls no engine and leaves the content as it was.
C17_NoReferenceNoChange ==
    (FileDone /\ NoImageRef(text)) =>
        /\ ~changed
        /\ new_text = text
        /\ \A rel \in Rels : calls[rel] = 0
        /\ captions_cache = {}

\* a file that opens a tag and never closes it went through the stage
C17_Witness ==
    /\ FileDone /\ NoImageRef(text)
    /\ Len(text) >= 2 /\ text[1] = "!" /\ text[2] = "["

\* ------------------------------------------- properties of a job's ending
\* C25: a job's working directory is reclaimed once the request has
\* completed: after a response of 200 or of a failed stage, the per-job
\* directory under the temporary root does not exist any more.
C25_WorkdirReclaimed ==
    \A r \in Requests : pc[r] \in {"done", "failed"} => ~workdir[r]

C26_InvalidUploadBeforeAdmission ==
    \A r \in Requests :
        /\ pc[r] = "invalid" =>
              /\ status[r] = 400
              /\ detail[r] \in {"Invalid file type. Only PDF files are supported.",
                                "Empty file uploaded."}
              /\ heldAtCall[r] = -1 /\ heldAtReturn[r] = -1 /\ waited[r] = 0
              /\ gate.owned[r] = 0 /\ ~InQueue(gate, r)
              /\ acquired[r] = 0 /\ released[r] = 0
              /\ ~workdir[r] /\ ~engineUsed[r]
              /\ Held = SumOwned(gate) /\ ~gate.unpaired /\ ~gate.error
        /\ status[r] = 400 => pc[r] = "invalid"

\* an empty upload is refused while another request's job keeps a slot
C26_Witness ==
    \E r, q \in Requests :
        /\ pc[r] = "invalid" /\ detail[r] = "Empty file uploaded."
        /\ InCriticalSection(q) /\ Held = 1

C22_NoEnginesNoJob ==
    (engines.ocr = 0 /\ engines.vl2 = 0) =>
        /\ cpc \in {"startup", "init_failed"}
        /\ gate = NoGate
        /\ ocr_used = 0 /\ cap_used = 0 /\ built <= 1
        /\ \A r \in Requests :
              /\ pc[r] \in {"idle", "error"}
              /\ pc[r] = "error" => status[r] = 500
              /\ acquired[r] = 0 /\ ~workdir[r] /\ ~engineUsed[r]
              /\ heldAtCall[r] = -1

\* init_engines raised after it had constructed the OCR engine, and every
\* request that came was answered 500
C22_Witness ==
    /\ cpc = "init_failed" /\ built = 1 /\ engines.ocr = 0
    /\ \A r \in Requests : pc[r] = "error" /\ status[r] = 500

\* ------------------------------------------ properties of the page loop
\* C24: in run_pdf_pipeline a cancellation signal is observed only between
\* pages. Once the event is set no further page's OCR is started, a page
\* in progress is finished, and the stage ends with the cancellation error:
\* it does not return, and the caption stage does not start.
C24_CancelBetweenPages ==
    [][cancel_evt = "set" =>
          /\ (cpc # "in_page" => cpc' # "in_page")
          /\ (cpc = "in_page" => cpc' \in {"in_page", "loop"})
          /\ cpc' \notin {"ocr_done", "captioning"}]_vars

====
